---- MODULE Spec2Model ----
(***************************************************************************)
(* Paths of src/filesystem.cxx: construction of a Path from a raw string   *)
(* (PathStringIterator, Path::Path), stringification, FindCommonRoot,      *)
(* DirectoryPath navigation and DirectoryPath::Walk.                       *)
(*                                                                         *)
(* A String is a sequence of one-character strings.  Positions inside a    *)
(* String are the 0-based size_t positions of the source.  The WINDOWS     *)
(* conditional compilation is the boolean "windows".                       *)
(***************************************************************************)
EXTENDS Integers, Sequences, FiniteSets, TLC

VARIABLES
    windows,           \* #ifdef WINDOWS: TRUE on a drive-letter build
    Absolute,          \* Path::Path(String const &Absolute): the raw string
    pc,                \* position of the constructor / of the current operation
    AbsoluteIterator,  \* the PathStringIterator: [PreviousMarker, Marker]
    Part,              \* String Part = AbsoluteIterator.Read() of the last iteration
    Tokens,            \* every value Part has taken, in order
    Parts,             \* Path::Parts of the object (*this)
    Original,          \* Parts of the Path whose AsAbsoluteString() is parsed again
    Kind,              \* "Path", "FilePath" or "DirectoryPath": the class of the object
    From,              \* Parts of the other DirectoryPath (From / Other)
    Returned,          \* what the last call returned, with the iterators it left
    Contents,          \* the file system: directory -> its entries in readdir order
    Unopenable,        \* the directories opendir() fails on
    Marker,            \* Walk: Parts of DirectoryPath Marker
    Transitions,       \* Walk: std::list<String> Transitions
    Processed,         \* Walk: the FilePaths given to Process, in order
    Steps,             \* Walk: the statements executed so far, each with the Marker it ran on
    Origins            \* Walk: for each element of Transitions, the Marker that inserted it

pathVars == <<windows, Absolute, pc, AbsoluteIterator, Part, Tokens, Parts, Original, Kind>>
relVars == <<From, Returned>>
walkVars == <<Contents, Unopenable, Marker, Transitions, Processed, Steps, Origins>>
vars == <<pathVars, relVars, walkVars>>

-----------------------------------------------------------------------------
(* Bounds *)

MaxPieces == 5

\* Longest segment sequence DirectoryPath::Enter and Select are followed to,
\* and longest Path given to FindCommonRoot and AsRelativeString.
MaxDepth == 3

\* The file system walked: directories nest at most MaxTreeDepth deep and
\* hold at most MaxEntries entries altogether.
MaxTreeDepth == 2
MaxEntries == 3

-----------------------------------------------------------------------------
(* Strings *)

\* String::npos: larger than every position of every string.
npos == 2147483647

Min(a, b) == IF a < b THEN a ELSE b

\* s.find(c, from): the first position >= from holding c, or npos.
Find(s, c, from) ==
    LET hits == {i \in 0..(Len(s) - 1) : i >= from /\ s[i + 1] = c}
    IN  IF hits = {} THEN npos ELSE CHOOSE i \in hits : \A j \in hits : i <= j

\* s.substr(pos, n), for pos <= s.size(): n is clamped to the end of s.
Substr(s, pos, n) == SubSeq(s, pos + 1, pos + Min(n, Len(s) - pos))

RECURSIVE Concat(_)
Concat(ss) == IF ss = <<>> THEN <<>> ELSE Head(ss) \o Concat(Tail(ss))

DotDot == <<".", ".">>
Dot == <<".">>

\* The raw strings the constructor is run on: every concatenation of at most
\* MaxPieces pieces, hence every string of at most MaxPieces characters over
\* the five characters below, and longer ones holding ".." and drive prefixes.
Pieces == {<<"/">>, <<"\\">>, Dot, DotDot, <<":">>, <<"a">>, <<"a", ":">>}

RawStrings ==
    {Concat(ps) : ps \in UNION {[1..n -> Pieces] : n \in 0..MaxPieces}}

-----------------------------------------------------------------------------
(* IsAbsolute, PathStringIterator *)

\* RawPath[i] of a std::string: the character, or '\0' at i = size().
CharAt(s, i) == IF i < Len(s) THEN s[i + 1] ELSE "\\0"

IsAbsolute(RawPath, win) ==
    IF win
    THEN ~((Len(RawPath) < 2) \/ (CharAt(RawPath, 1) # ":"))
    ELSE ~(CharAt(RawPath, 0) # "/")

\* PathStringIterator(PathString): PreviousMarker(0), Marker(0)
NewIterator == [PreviousMarker |-> 0, Marker |-> 0]

\* The separator position FindNext settles on, searching from Previous.
FindSeparator(PathString, Previous, win) ==
    LET slash == Find(PathString, "/", Previous)
    IN  IF win /\ slash = npos THEN Find(PathString, "\\", Previous) ELSE slash

\* FindNext: [found, it]; found = FALSE is the early return of line 39.
FindNext(it, PathString, win) ==
    IF it.Marker = npos
    THEN [found |-> FALSE, it |-> it]
    ELSE LET m == FindSeparator(PathString, it.Marker, win)
         IN  [found |-> TRUE,
              it |-> [PreviousMarker |-> it.Marker,
                      Marker |-> IF m # npos THEN m + 1 ELSE m]]

Read(it, PathString) ==
    IF it.Marker - 1 - it.PreviousMarker = 0
    THEN <<>>
    ELSE Substr(PathString, it.PreviousMarker, it.Marker - 1 - it.PreviousMarker)

-----------------------------------------------------------------------------
(* Path::Path(String const &Absolute) *)

Front(s) == SubSeq(s, 1, Len(s) - 1)

\* Lines 66-72: the two precondition checks, then the iterator is created.
PathBegin ==
    /\ pc = "start"
    /\ IF Absolute = <<>> \/ ~IsAbsolute(Absolute, windows)
       THEN pc' = "failed" /\ UNCHANGED AbsoluteIterator
       ELSE pc' = "loop" /\ AbsoluteIterator' = NewIterator
    /\ UNCHANGED <<windows, Absolute, Part, Tokens, Parts, Original, Kind>>
    /\ UNCHANGED <<relVars, walkVars>>

\* Consume without the drive-letter check of line 83.
ConsumePastDrive(parts, part, win) ==
    IF part = <<>> THEN [ok |-> TRUE, Parts |-> parts]
    ELSE IF part = DotDot
    THEN IF parts = <<>>
         THEN [ok |-> FALSE, Parts |-> parts]
         ELSE [ok |-> TRUE, Parts |-> Front(parts)]
    ELSE IF part = Dot THEN [ok |-> TRUE, Parts |-> parts]
    ELSE [ok |-> TRUE, Parts |-> Append(parts, part)]

\* The effect of one token on Parts (lines 77-89): [ok, Parts].
Consume(parts, part, win) ==
    IF part = <<>> THEN [ok |-> TRUE, Parts |-> parts]
    ELSE IF part = DotDot
    THEN IF parts = <<>> \/ (win /\ Len(parts) = 1)
         THEN [ok |-> FALSE, Parts |-> parts]
         ELSE [ok |-> TRUE, Parts |-> Front(parts)]
    ELSE IF part = Dot THEN [ok |-> TRUE, Parts |-> parts]
    ELSE [ok |-> TRUE, Parts |-> Append(parts, part)]

\* One iteration of the while loop of lines 74-90.
PathLoop ==
    /\ pc = "loop"
    /\ LET next == FindNext(AbsoluteIterator, Absolute, windows)
           part == Read(next.it, Absolute)
           res  == Consume(Parts, part, windows)
       IN  /\ next.found
           /\ AbsoluteIterator' = next.it
           /\ Part' = part
           /\ Tokens' = Append(Tokens, part)
           /\ Parts' = res.Parts
           /\ pc' = IF res.ok THEN "loop" ELSE "failed"
    /\ UNCHANGED <<windows, Absolute, Original, Kind>>
    /\ UNCHANGED <<relVars, walkVars>>

\* FindNext returned false: the constructor returns.
PathEnd ==
    /\ pc = "loop"
    /\ ~FindNext(AbsoluteIterator, Absolute, windows).found
    /\ pc' = "built"
    /\ UNCHANGED <<windows, Absolute, AbsoluteIterator, Part, Tokens, Parts, Original, Kind>>
    /\ UNCHANGED <<relVars, walkVars>>

-----------------------------------------------------------------------------
(* Path::AsAbsoluteString *)

RECURSIVE JoinWith(_, _)
JoinWith(parts, lead) ==
    IF parts = <<>> THEN <<>>
    ELSE (IF lead THEN <<"/">> ELSE <<>>) \o Head(parts) \o JoinWith(Tail(parts), TRUE)

AsAbsoluteString(parts, win) ==
    IF win
    THEN JoinWith(parts, FALSE)
    ELSE (IF parts = <<>> THEN <<"/">> ELSE <<>>) \o JoinWith(parts, TRUE)

\* Path(P.AsAbsoluteString()): the built Path is stringified and the string
\* is given to the constructor again.
Reparse ==
    /\ pc = "built"
    /\ Original = <<"none">>
    /\ Original' = <<"some", Parts>>
    /\ Absolute' = AsAbsoluteString(Parts, windows)
    /\ pc' = "start"
    /\ AbsoluteIterator' = NewIterator
    /\ Part' = <<>>
    /\ Tokens' = <<>>
    /\ Parts' = <<>>
    /\ UNCHANGED <<windows, Kind>>
    /\ UNCHANGED <<relVars, walkVars>>

-----------------------------------------------------------------------------
(* Initial values of the variables an operation does not use *)

NoOther == From = <<>> /\ Returned = <<>>

\* No file system entry, no walk.
NoWalk ==
    /\ Contents = <<>>
    /\ Unopenable = {}
    /\ Marker = <<>>
    /\ Transitions = <<>>
    /\ Processed = <<>>
    /\ Steps = <<>>
    /\ Origins = <<>>

-----------------------------------------------------------------------------
(* Construction of a Path from a raw string, and of a second Path from the *)
(* first one's absolute string.                                            *)

Init ==
    /\ windows \in BOOLEAN
    /\ Absolute \in RawStrings
    /\ pc = "start"
    /\ AbsoluteIterator = NewIterator
    /\ Part = <<>>
    /\ Tokens = <<>>
    /\ Parts = <<>>
    /\ Original = <<"none">>
    /\ Kind = "Path"
    /\ NoOther
    /\ NoWalk

Next == PathBegin \/ PathLoop \/ PathEnd \/ Reparse

Spec == Init /\ [][Next]_vars

-----------------------------------------------------------------------------
(* Reference notions the properties of construction are stated with *)

Separators(win) == IF win THEN {"/", "\\"} ELSE {"/"}

Reserved(win) == IF win THEN 1 ELSE 0

\* The platform's absolute-prefix predicate, as a statement about characters.
HasAbsolutePrefix(s, win) ==
    IF win THEN Len(s) >= 2 /\ s[2] = ":" ELSE Len(s) >= 1 /\ s[1] = "/"

IsSegmentToken(t) == t \notin {<<>>, Dot, DotDot}

\* Among toks[from..to]: how many tokens are pushed, how many are "..".
Pushes(toks, from, to) == Cardinality({j \in from..to : IsSegmentToken(toks[j])})
Pops(toks, from, to) == Cardinality({j \in from..to : toks[j] = DotDot})

\* Token i is a ".." met while the stack holds no segment beyond the reserved ones.
EscapesAt(toks, i, win) ==
    /\ toks[i] = DotDot
    /\ Pushes(toks, 1, i - 1) - Pops(toks, 1, i - 1) <= Reserved(win)

\* Token i is pushed and no later ".." removes it: every ".." removes the
\* most recently pushed segment still on the stack.
Survives(toks, i) ==
    /\ IsSegmentToken(toks[i])
    /\ \A j \in (i + 1)..Len(toks) : Pops(toks, i + 1, j) <= Pushes(toks, i + 1, j)

RECURSIVE SurvivorsFrom(_, _)
SurvivorsFrom(toks, i) ==
    IF i > Len(toks) THEN <<>>
    ELSE (IF Survives(toks, i) THEN <<toks[i]>> ELSE <<>>) \o SurvivorsFrom(toks, i + 1)

\* Position in the raw string at which token k starts.
RECURSIVE TokenStart(_, _)
TokenStart(toks, k) ==
    IF k = 1 THEN 0 ELSE TokenStart(toks, k - 1) + Len(toks[k - 1]) + 1

\* toks are the pieces of raw cut at single separator characters, in order,
\* covering raw from its first to its last character.
TokensCover(toks, raw, win) ==
    /\ toks # <<>>
    /\ \A k \in 1..Len(toks) :
          /\ TokenStart(toks, k) + Len(toks[k]) <= Len(raw)
          /\ SubSeq(raw, TokenStart(toks, k) + 1, TokenStart(toks, k) + Len(toks[k])) = toks[k]
          /\ k < Len(toks) => /\ TokenStart(toks, k + 1) <= Len(raw)
                              /\ raw[TokenStart(toks, k + 1)] \in Separators(win)
    /\ TokenStart(toks, Len(toks)) + Len(toks[Len(toks)]) = Len(raw)

HasSeparator(s, win) == \E i \in 1..Len(s) : s[i] \in Separators(win)

-----------------------------------------------------------------------------
(* Properties of construction *)

\* C4: construction fails exactly when the raw string is empty, or lacks the
\* platform's absolute prefix, or a ".." token is met while the stack is empty
\* (on a drive-letter platform: while at most the drive segment remains);
\* otherwise it succeeds, every token of the string has been scanned, and the
\* segments are the pushed tokens that no later ".." has removed.
ConstructionFailsExactlyOnInvalidPath ==
    /\ pc = "failed" =>
          \/ Absolute = <<>>
          \/ ~HasAbsolutePrefix(Absolute, windows)
          \/ Tokens # <<>> /\ EscapesAt(Tokens, Len(Tokens), windows)
    /\ pc \in {"loop", "built"} =>
          /\ Absolute # <<>>
          /\ HasAbsolutePrefix(Absolute, windows)
          /\ \A i \in 1..Len(Tokens) : ~EscapesAt(Tokens, i, windows)
          /\ Parts = SurvivorsFrom(Tokens, 1)
    /\ pc = "built" => TokensCover(Tokens, Absolute, windows)

\* A ".." met on a drive-letter platform while only the drive segment remains.
WitnessEscapePastDrive ==
    pc = "failed" /\ windows /\ Len(Parts) = 1 /\ Len(Tokens) >= 2

\* A ".." that removed a pushed segment above the drive segment.
WitnessPopSucceeds ==
    pc = "built" /\ windows /\ \E i \in 1..Len(Tokens) : Tokens[i] = DotDot

\* C10: no token read by the tokenizer, and no segment of the Path, holds a
\* character of the platform's separator set.
NoSeparatorInTokens ==
    /\ \A i \in 1..Len(Tokens) : ~HasSeparator(Tokens[i], windows)
    /\ \A i \in 1..Len(Parts) : ~HasSeparator(Parts[i], windows)

\* C6: the Path built from P.AsAbsoluteString() is built without error and
\* has the segments of P.
RoundTripYieldsEqualPath ==
    (Original # <<"none">> /\ pc \in {"built", "failed"}) =>
        (pc = "built" /\ Parts = Original[2])

\* The same round trip on a root-relative platform only.
RoundTripRootRelative == ~windows => RoundTripYieldsEqualPath

-----------------------------------------------------------------------------
(* FilePath and DirectoryPath: Qualify, Enter, Exit, Select, Directory, File *)

\* Raw strings given to the FilePath / DirectoryPath constructors and to Qualify.
NavRawStrings ==
    {<<>>, <<"/">>, <<"a">>, <<"/", "a">>, <<"/", "a", "/">>, <<"/", "a", "/", "a">>,
     <<"/", "a", "/", ".", ".">>, <<"/", ".", ".">>, <<".", ".">>, <<"a", "/", "a">>,
     <<"a", ":">>, <<"a", ":", "/", "a">>, <<"a", ":", "\\", "a">>, <<"/", ":">>}

\* Arguments given to Enter and Select: any String is accepted.
Names == {<<>>, Dot, DotDot, <<"a">>, <<"b">>, <<"a", "/", "b">>}

\* What LocateWorkingDirectory() can return: the Path of getcwd()'s string.
WorkingDirectories(win) ==
    IF win THEN {<<<<"a", ":">>>>, <<<<"a", ":">>, <<"b">>>>}
    ELSE {<<>>, <<<<"b">>>>}

IsRoot(parts, win) == IF win THEN Len(parts) <= 1 ELSE parts = <<>>

\* The String FilePath::Qualify / DirectoryPath::Qualify hands to the constructor.
Qualified(RawPath, cwd, win) ==
    IF IsAbsolute(RawPath, win) THEN RawPath
    ELSE AsAbsoluteString(cwd, win) \o <<"/">> \o RawPath

\* The constructor's parameter and locals do not outlive the constructor.
ConstructorGone ==
    /\ Absolute' = <<>>
    /\ AbsoluteIterator' = NewIterator
    /\ Part' = <<>>
    /\ Tokens' = <<>>

\* FilePath::Qualify, DirectoryPath::Qualify (lines 185-190, 240-245); getcwd
\* may fail, which LocateWorkingDirectory reports as Error::System.
Qualify ==
    /\ pc = "qualify"
    /\ \/ \E cwd \in WorkingDirectories(windows) :
             /\ Absolute' = Qualified(Absolute, cwd, windows)
             /\ pc' = "start"
       \/ /\ ~IsAbsolute(Absolute, windows)
          /\ pc' = "system_error"
          /\ UNCHANGED Absolute
    /\ UNCHANGED <<windows, AbsoluteIterator, Part, Tokens, Parts, Original, Kind>>
    /\ UNCHANGED <<relVars, walkVars>>

\* DirectoryPath::Enter: the argument is appended as it is.
Enter(Directory) ==
    /\ pc = "built"
    /\ Kind = "DirectoryPath"
    /\ Len(Parts) < MaxDepth
    /\ Parts' = Append(Parts, Directory)
    /\ ConstructorGone
    /\ UNCHANGED <<windows, pc, Original, Kind>>
    /\ UNCHANGED <<relVars, walkVars>>

\* DirectoryPath::Exit: assert(!IsRoot()) stops the program at the root.
Exit ==
    /\ pc = "built"
    /\ Kind = "DirectoryPath"
    /\ IF IsRoot(Parts, windows)
       THEN pc' = "aborted" /\ UNCHANGED Parts
       ELSE pc' = pc /\ Parts' = Front(Parts)
    /\ ConstructorGone
    /\ UNCHANGED <<windows, Original, Kind>>
    /\ UNCHANGED <<relVars, walkVars>>

\* DirectoryPath::Select: FilePath(Parts, File) is Parts with File appended.
SelectParts(parts, File) == Append(parts, File)

Select(File) ==
    /\ pc = "built"
    /\ Kind = "DirectoryPath"
    /\ Len(Parts) < MaxDepth
    /\ Parts' = SelectParts(Parts, File)
    /\ Kind' = "FilePath"
    /\ ConstructorGone
    /\ UNCHANGED <<windows, pc, Original>>
    /\ UNCHANGED <<relVars, walkVars>>

\* FilePath::Directory: PartCollection(Parts.begin(), --Parts.end()); the
\* decrement of end() of an empty collection is undefined.
Directory ==
    /\ pc = "built"
    /\ Kind = "FilePath"
    /\ IF Parts = <<>>
       THEN pc' = "undefined" /\ UNCHANGED <<Parts, Kind>>
       ELSE pc' = pc /\ Parts' = Front(Parts) /\ Kind' = "DirectoryPath"
    /\ ConstructorGone
    /\ UNCHANGED <<windows, Original>>
    /\ UNCHANGED <<relVars, walkVars>>

\* FilePath::File: Parts.back(), undefined on an empty collection.
File ==
    /\ pc = "built"
    /\ Kind = "FilePath"
    /\ IF Parts = <<>>
       THEN pc' = "undefined" /\ Part' = <<>>
       ELSE pc' = pc /\ Part' = Parts[Len(Parts)]
    /\ Absolute' = <<>>
    /\ AbsoluteIterator' = NewIterator
    /\ Tokens' = <<>>
    /\ UNCHANGED <<windows, Parts, Original, Kind>>
    /\ UNCHANGED <<relVars, walkVars>>

NavInit ==
    /\ windows \in BOOLEAN
    /\ Absolute \in NavRawStrings
    /\ pc \in {"start", "qualify"}
    /\ AbsoluteIterator = NewIterator
    /\ Part = <<>>
    /\ Tokens = <<>>
    /\ Parts = <<>>
    /\ Original = <<"none">>
    /\ Kind \in {"FilePath", "DirectoryPath"}
    /\ NoOther
    /\ NoWalk

NavNext ==
    \/ Qualify
    \/ PathBegin
    \/ PathLoop
    \/ PathEnd
    \/ \E Directory_ \in Names : Enter(Directory_)
    \/ Exit
    \/ \E File_ \in Names : Select(File_)
    \/ Directory
    \/ File

NavSpec == NavInit /\ [][NavNext]_vars

-----------------------------------------------------------------------------
(* Properties of FilePath and DirectoryPath values *)

IsNormalizedSegment(seg) == seg # <<>> /\ seg # Dot /\ seg # DotDot

\* C5: the segment sequence of every successfully constructed Path, and of
\* every Path obtained from it by Enter, Exit, Select and Directory, holds
\* no empty segment, no "." and no "..".
PartsFullyNormalized ==
    pc = "built" => \A i \in 1..Len(Parts) : IsNormalizedSegment(Parts[i])

\* C9: every FilePath obtained by construction, Qualify or Select has at
\* least one segment.
FilePathHasSegment ==
    (pc = "built" /\ Kind = "FilePath") => Len(Parts) >= 1

-----------------------------------------------------------------------------
(* Path::FindCommonRoot, DirectoryPath::FindCommonRoot, Path::AsRelativeString *)

\* Iterators into a PartCollection are 0-based positions; end() is its size.

\* The while loop of lines 173-179, from the iterator positions given.
RECURSIVE FindCommonRootLoop(_, _, _, _, _)
FindCommonRootLoop(parts, OtherParts, LocalPart, OtherPart, Out) ==
    IF (LocalPart # Len(parts)) /\ (OtherPart # Len(OtherParts))
    THEN IF parts[LocalPart + 1] # OtherParts[OtherPart + 1]
         THEN [Out |-> Out, LocalDivergence |-> LocalPart, OtherDivergence |-> OtherPart]
         ELSE FindCommonRootLoop(parts, OtherParts, LocalPart + 1, OtherPart + 1,
                                 Append(Out, parts[LocalPart + 1]))
    ELSE [Out |-> Out, LocalDivergence |-> LocalPart, OtherDivergence |-> OtherPart]

\* The loop with "continue" in the place of "break": a mismatch is skipped.
RECURSIVE FindCommonRootNoBreakLoop(_, _, _, _, _)
FindCommonRootNoBreakLoop(parts, OtherParts, LocalPart, OtherPart, Out) ==
    IF (LocalPart # Len(parts)) /\ (OtherPart # Len(OtherParts))
    THEN FindCommonRootNoBreakLoop(parts, OtherParts, LocalPart + 1, OtherPart + 1,
             IF parts[LocalPart + 1] # OtherParts[OtherPart + 1]
             THEN Out ELSE Append(Out, parts[LocalPart + 1]))
    ELSE [Out |-> Out, LocalDivergence |-> LocalPart, OtherDivergence |-> OtherPart]

FindCommonRootNoBreak(parts, OtherParts, LocalDivergence, OtherDivergence) ==
    FindCommonRootNoBreakLoop(parts, OtherParts, LocalDivergence, OtherDivergence, <<>>)

\* Path::FindCommonRoot: the returned collection and the two iterators,
\* which are references to the caller's.
FindCommonRoot(parts, OtherParts, LocalDivergence, OtherDivergence) ==
    FindCommonRootLoop(parts, OtherParts, LocalDivergence, OtherDivergence, <<>>)

\* DirectoryPath::FindCommonRoot(Other): both iterators start at begin().
DirectoryFindCommonRoot(parts, OtherParts) ==
    FindCommonRoot(parts, OtherParts, 0, 0).Out

\* The StringStream Out and the flag First of AsRelativeString.
NewStream == [Out |-> <<>>, First |-> TRUE]

\* AppendPart without the flag First: a separator before every part.
AppendPartAlwaysSeparated(st, part) ==
    [Out |-> st.Out \o <<"/">> \o part, First |-> FALSE]

AppendPart(st, part) ==
    [Out |-> (IF st.First THEN st.Out ELSE st.Out \o <<"/">>) \o part,
     First |-> FALSE]

\* for (; FromPart != From.Parts.end(); FromPart++) AppendPart("..")
RECURSIVE AppendDotDots(_, _, _)
AppendDotDots(st, FromPart, FromParts) ==
    IF FromPart # Len(FromParts)
    THEN AppendDotDots(AppendPart(st, DotDot), FromPart + 1, FromParts)
    ELSE st

\* for (; HerePart != Parts.end(); HerePart++) AppendPart(*HerePart)
RECURSIVE AppendHere(_, _, _)
AppendHere(st, HerePart, parts) ==
    IF HerePart # Len(parts)
    THEN AppendHere(AppendPart(st, parts[HerePart + 1]), HerePart + 1, parts)
    ELSE st

AsRelativeString(parts, FromParts) ==
    LET found == FindCommonRoot(parts, FromParts, 0, 0)
        dots  == AppendDotDots(NewStream, found.OtherDivergence, FromParts)
    IN  AppendHere(dots, found.LocalDivergence, parts).Out

\* Segments of the two paths; "a" and "A" differ in case only.
Segments == {<<"a">>, <<"A">>, <<"b">>, <<"c">>}

SegmentSequences == UNION {[1..n -> Segments] : n \in 0..MaxDepth}

CallAsRelativeString ==
    /\ pc = "call"
    /\ Returned' = <<[op |-> "AsRelativeString", Out |-> AsRelativeString(Parts, From)]>>
    /\ pc' = "returned"
    /\ UNCHANGED <<windows, Absolute, AbsoluteIterator, Part, Tokens, Parts, Original, Kind>>
    /\ UNCHANGED <<From, walkVars>>

CallFindCommonRoot ==
    /\ pc = "call"
    /\ Returned' = <<[op |-> "FindCommonRoot"] @@ FindCommonRoot(Parts, From, 0, 0)>>
    /\ pc' = "returned"
    /\ UNCHANGED <<windows, Absolute, AbsoluteIterator, Part, Tokens, Parts, Original, Kind>>
    /\ UNCHANGED <<From, walkVars>>

\* this->FindCommonRoot(Other)
CallDirectoryFindCommonRoot ==
    /\ pc = "call"
    /\ Returned' = <<[op |-> "DirectoryPath::FindCommonRoot",
                      Out |-> DirectoryFindCommonRoot(Parts, From)]>>
    /\ pc' = "returned"
    /\ UNCHANGED <<windows, Absolute, AbsoluteIterator, Part, Tokens, Parts, Original, Kind>>
    /\ UNCHANGED <<From, walkVars>>

\* Other.FindCommonRoot(*this), called after this->FindCommonRoot(Other)
CallOtherFindCommonRoot ==
    /\ pc = "returned"
    /\ Returned[1].op = "DirectoryPath::FindCommonRoot"
    /\ Returned' = Append(Returned, [op |-> "DirectoryPath::FindCommonRoot",
                                     Out |-> DirectoryFindCommonRoot(From, Parts)])
    /\ pc' = "returned twice"
    /\ UNCHANGED <<windows, Absolute, AbsoluteIterator, Part, Tokens, Parts, Original, Kind>>
    /\ UNCHANGED <<From, walkVars>>

RelInit ==
    /\ windows = FALSE
    /\ Absolute = <<>>
    /\ pc = "call"
    /\ AbsoluteIterator = NewIterator
    /\ Part = <<>>
    /\ Tokens = <<>>
    /\ Parts \in SegmentSequences
    /\ Original = <<"none">>
    /\ Kind = "DirectoryPath"
    /\ From \in SegmentSequences
    /\ Returned = <<>>
    /\ NoWalk

RelNext ==
    \/ CallAsRelativeString
    \/ CallFindCommonRoot
    \/ CallDirectoryFindCommonRoot
    \/ CallOtherFindCommonRoot

RelSpec == RelInit /\ [][RelNext]_vars

-----------------------------------------------------------------------------
(* Properties of FindCommonRoot and AsRelativeString *)

IsPrefixOf(a, b) == Len(a) <= Len(b) /\ SubSeq(b, 1, Len(a)) = a

\* The length of the longest common prefix of a and b.
CommonPrefixLength(a, b) ==
    CHOOSE k \in 0..Min(Len(a), Len(b)) :
        /\ \A i \in 1..k : a[i] = b[i]
        /\ k < Min(Len(a), Len(b)) => a[k + 1] # b[k + 1]

\* n times "..".
DotDots(n) == [i \in 1..n |-> DotDot]

\* The elements of ss with one "/" between neighbours.
RECURSIVE SlashJoined(_)
SlashJoined(ss) ==
    IF Len(ss) = 0 THEN <<>>
    ELSE IF Len(ss) = 1 THEN ss[1]
    ELSE SlashJoined(Front(ss)) \o <<"/">> \o ss[Len(ss)]

\* C7: P.AsRelativeString(F) is (length(F) - k) ".." followed by the
\* segments of P from index k on, joined by "/", k being the length of the
\* longest common prefix of P and F; it is empty when P and F are equal.
RelativeStringIsDotDotsThenSuffix ==
    (pc = "returned" /\ Returned[1].op = "AsRelativeString") =>
        LET k == CommonPrefixLength(Parts, From)
        IN  /\ Returned[1].Out =
                 SlashJoined(DotDots(Len(From) - k) \o SubSeq(Parts, k + 1, Len(Parts)))
            /\ Parts = From => Returned[1].Out = <<>>

\* /a/b/c relative to /a/A/A is ../../b/c.
WitnessRelativeString ==
    /\ pc = "returned"
    /\ Returned[1].op = "AsRelativeString"
    /\ Parts = <<<<"a">>, <<"b">>, <<"c">>>>
    /\ From = <<<<"a">>, <<"A">>, <<"A">>>>
    /\ Returned[1].Out = <<".", ".", "/", ".", ".", "/", "b", "/", "c">>

\* C8: FindCommonRoot started at index 0 of both returns the longest common
\* prefix and leaves both iterators at its length; DirectoryPath's
\* FindCommonRoot gives the same result with its arguments exchanged, a
\* prefix of both.
FindCommonRootIsLongestCommonPrefix ==
    LET k == CommonPrefixLength(Parts, From)
    IN  /\ (pc = "returned" /\ Returned[1].op = "FindCommonRoot") =>
              /\ Returned[1].Out = SubSeq(Parts, 1, k)
              /\ Returned[1].Out = SubSeq(From, 1, k)
              /\ Returned[1].LocalDivergence = k
              /\ Returned[1].OtherDivergence = k
        /\ (pc = "returned" /\ Returned[1].op = "DirectoryPath::FindCommonRoot") =>
              /\ Returned[1].Out = SubSeq(Parts, 1, k)
              /\ IsPrefixOf(Returned[1].Out, Parts)
              /\ IsPrefixOf(Returned[1].Out, From)
        /\ pc = "returned twice" => Returned[2].Out = Returned[1].Out

\* Two paths of different lengths whose segments at index 1 differ in case
\* only: the common root is the one segment before, seen from both sides.
WitnessCommonRoot ==
    /\ pc = "returned twice"
    /\ Parts = <<<<"a">>, <<"A">>, <<"b">>>>
    /\ From = <<<<"a">>, <<"a">>>>
    /\ Returned[2].Out = <<<<"a">>>>

-----------------------------------------------------------------------------
(* The file system, ProcessDirectoryContents, ListFiles, ListDirectories *)

EntryNames == {<<"a">>, <<"b">>}

\* The directories there can be, as segment sequences below "/".
Directories == UNION {[1..n -> EntryNames] : n \in 0..MaxTreeDepth}

IsDirectoryEntry(entries, name) ==
    \E i \in 1..Len(entries) : entries[i].name = name /\ ~entries[i].isFile

HasEntry(entries, name) == \E i \in 1..Len(entries) : entries[i].name = name

\* The directory d exists: "/" does, and so does every directory entry.
DirectoryExists(d) ==
    IF d \notin Directories THEN FALSE
    ELSE IF d = <<>> THEN TRUE
    ELSE IsDirectoryEntry(Contents[Front(d)], d[Len(d)])

EntryCount == Cardinality({<<d, i>> \in Directories \X (1..MaxEntries) : i <= Len(Contents[d])})

\* What readdir() yields for a directory that opendir() opened.
ReadDir(d) ==
    <<[name |-> Dot, isFile |-> FALSE], [name |-> DotDot, isFile |-> FALSE]>>
        \o (IF d \in Directories THEN Contents[d] ELSE <<>>)

IsDotEntry(e) == (e.name = Dot) \/ (e.name = DotDot)

KeepsEntry(e) == ~IsDotEntry(e)

\* ProcessDirectoryContents without the return of line 308: the entries are
\* read whether or not opendir() succeeded.
ProcessDirectoryContentsUnchecked(DirectoryName) ==
    IF ~DirectoryExists(DirectoryName)
    THEN <<>>
    ELSE SelectSeq(ReadDir(DirectoryName), KeepsEntry)

\* ProcessDirectoryContents (lines 307-318): the (Element, IsFile) pairs
\* Process is called with, in order; none when the directory cannot be opened.
ProcessDirectoryContents(DirectoryName) ==
    IF ~DirectoryExists(DirectoryName) \/ DirectoryName \in Unopenable
    THEN <<>>
    ELSE SelectSeq(ReadDir(DirectoryName), KeepsEntry)

IsFileElement(e) == e.isFile
IsDirectoryElement(e) == ~e.isFile

ElementNames(es) == [i \in 1..Len(es) |-> es[i].name]

\* ListFiles without the test of IsFile.
ListFilesUnfiltered(d) == ElementNames(ProcessDirectoryContents(d))

ListFiles(d) == ElementNames(SelectSeq(ProcessDirectoryContents(d), IsFileElement))

ListDirectories(d) == ElementNames(SelectSeq(ProcessDirectoryContents(d), IsDirectoryElement))

\* The environment creates a file or a directory; readdir lists it last.
CreateEntry(d, name, isFile) ==
    /\ pc = "setup"
    /\ DirectoryExists(d)
    /\ ~HasEntry(Contents[d], name)
    /\ EntryCount < MaxEntries
    /\ (~isFile) => Len(d) < MaxTreeDepth
    /\ Contents' = [Contents EXCEPT ![d] = Append(@, [name |-> name, isFile |-> isFile])]
    /\ UNCHANGED <<pathVars, relVars, Unopenable, Marker, Transitions, Processed, Steps, Origins>>

\* The environment takes a directory's read permission away.
Forbid(d) ==
    /\ pc = "setup"
    /\ DirectoryExists(d)
    /\ d \notin Unopenable
    /\ Unopenable' = Unopenable \cup {d}
    /\ UNCHANGED <<pathVars, relVars, Contents, Marker, Transitions, Processed, Steps, Origins>>

-----------------------------------------------------------------------------
(* DirectoryPath::Walk *)

\* Walk without the call of ProcessFiles of line 352.
AfterWalkBeginSkipsFiles == "root queue"

\* The order of the statements of Walk outside the loop test.
AfterWalkBegin == "root files"
AfterProcessFiles(at) == IF at = "root files" THEN "root queue" ELSE "loop"
AfterQueueNewTransitions(at) == IF at = "root queue" THEN "loop" ELSE "files"

\* Walk without the push of the empty transition of line 369.
PushAscendMissing(transitions) == transitions

\* Transitions.push_front("")
PushAscend(transitions) == <<<<>>>> \o transitions

\* An insertion behind the transitions already queued.
InsertAtEnd(transitions, directories) == transitions \o directories

\* s from its last element to its first.
Reverse(s) == [i \in 1..Len(s) |-> s[Len(s) + 1 - i]]

\* An insertion that puts the last listed directory first.
InsertReversed(transitions, directories) == Reverse(directories) \o transitions

\* Transitions.insert(Transitions.begin(), Directories.begin(), Directories.end())
InsertAtBegin(transitions, directories) == directories \o transitions

\* Walk is called on an existing directory: DirectoryPath Marker(*this).
WalkBegin(root) ==
    /\ pc = "setup"
    /\ DirectoryExists(root)
    /\ Parts' = root
    /\ Marker' = root
    /\ Transitions' = <<>>
    /\ pc' = AfterWalkBegin
    /\ UNCHANGED <<windows, Absolute, AbsoluteIterator, Part, Tokens, Original, Kind>>
    /\ UNCHANGED <<relVars, Contents, Unopenable, Processed, Steps, Origins>>

\* The lambda ProcessFiles (lines 341-342), called at lines 352 and 371.
ProcessFiles ==
    /\ pc \in {"root files", "files"}
    /\ LET Files == ListFiles(Marker)
       IN  Processed' = Processed \o [i \in 1..Len(Files) |-> SelectParts(Marker, Files[i])]
    /\ pc' = AfterProcessFiles(pc)
    /\ Steps' = Append(Steps, [op |-> "ProcessFiles", at |-> Marker])
    /\ UNCHANGED <<windows, Absolute, AbsoluteIterator, Part, Tokens, Parts, Original, Kind>>
    /\ UNCHANGED <<relVars, Contents, Unopenable, Marker, Transitions, Origins>>

\* The lambda QueueNewTransitions (lines 344-349), called at lines 353 and 370.
QueueNewTransitions ==
    /\ pc \in {"root queue", "queue"}
    /\ Transitions' = InsertAtBegin(Transitions, ListDirectories(Marker))
    /\ Origins' = InsertAtBegin(Origins, [i \in 1..Len(ListDirectories(Marker)) |-> Marker])
    /\ pc' = AfterQueueNewTransitions(pc)
    /\ Steps' = Append(Steps, [op |-> "QueueNewTransitions", at |-> Marker])
    /\ UNCHANGED <<windows, Absolute, AbsoluteIterator, Part, Tokens, Parts, Original, Kind>>
    /\ UNCHANGED <<relVars, Contents, Unopenable, Marker, Processed>>

\* Lines 357-365: the front transition is empty, Marker.Exit().
WalkAscend ==
    /\ pc = "loop"
    /\ Transitions # <<>>
    /\ Head(Transitions) = <<>>
    /\ Transitions' = Tail(Transitions)
    /\ Origins' = Tail(Origins)
    /\ IF IsRoot(Marker, windows)
       THEN pc' = "aborted" /\ UNCHANGED Marker
       ELSE pc' = "loop" /\ Marker' = Front(Marker)
    /\ Steps' = Append(Steps, [op |-> "Exit", at |-> Marker])
    /\ UNCHANGED <<windows, Absolute, AbsoluteIterator, Part, Tokens, Parts, Original, Kind>>
    /\ UNCHANGED <<relVars, Contents, Unopenable, Processed>>

\* Lines 357-369: Marker.Enter(NextTransition); Transitions.push_front("").
WalkDescend ==
    /\ pc = "loop"
    /\ Transitions # <<>>
    /\ Head(Transitions) # <<>>
    /\ Marker' = Append(Marker, Head(Transitions))
    /\ Transitions' = PushAscend(Tail(Transitions))
    /\ Origins' = <<Append(Marker, Head(Transitions))>> \o Tail(Origins)
    /\ pc' = "queue"
    /\ Steps' = Append(Steps, [op |-> "Enter", at |-> Append(Marker, Head(Transitions))])
    /\ UNCHANGED <<windows, Absolute, AbsoluteIterator, Part, Tokens, Parts, Original, Kind>>
    /\ UNCHANGED <<relVars, Contents, Unopenable, Processed>>

\* Line 355: Transitions is empty, Walk returns.
WalkEnd ==
    /\ pc = "loop"
    /\ Transitions = <<>>
    /\ pc' = "done"
    /\ UNCHANGED <<windows, Absolute, AbsoluteIterator, Part, Tokens, Parts, Original, Kind>>
    /\ UNCHANGED <<relVars, walkVars>>

\* The walk is that of the root-relative build, whose branch of
\* ProcessDirectoryContents is the one modelled; no entry and no walk yet.
WalkInit ==
    /\ windows = FALSE
    /\ Absolute = <<>>
    /\ pc = "setup"
    /\ AbsoluteIterator = NewIterator
    /\ Part = <<>>
    /\ Tokens = <<>>
    /\ Parts = <<>>
    /\ Original = <<"none">>
    /\ Kind = "DirectoryPath"
    /\ NoOther
    /\ Contents = [d \in Directories |-> <<>>]
    /\ Unopenable = {}
    /\ Marker = <<>>
    /\ Transitions = <<>>
    /\ Processed = <<>>
    /\ Steps = <<>>
    /\ Origins = <<>>

Walking == ProcessFiles \/ QueueNewTransitions \/ WalkAscend \/ WalkDescend \/ WalkEnd

WalkNext ==
    \/ \E d \in Directories, name \in EntryNames, isFile \in BOOLEAN : CreateEntry(d, name, isFile)
    \/ \E d \in Directories : Forbid(d)
    \/ \E root \in Directories : WalkBegin(root)
    \/ ProcessFiles
    \/ QueueNewTransitions
    \/ WalkAscend
    \/ WalkDescend
    \/ WalkEnd

WalkSpec == WalkInit /\ [][WalkNext]_vars

\* Walk runs on the caller's thread to completion: a walk that has begun
\* takes its next step.
FairWalkSpec == WalkSpec /\ WF_vars(Walking)

-----------------------------------------------------------------------------
(* Properties of Walk *)

FileNamesIn(d) == {Contents[d][i].name : i \in {n \in 1..Len(Contents[d]) : Contents[d][n].isFile}}

\* The directories at or beneath root: each segment below root names a
\* directory entry of the directory before it.
DirectoriesBeneath(root) ==
    {d \in Directories :
        /\ IsPrefixOf(root, d)
        /\ \A k \in (Len(root) + 1)..Len(d) :
              IsDirectoryEntry(Contents[SubSeq(d, 1, k - 1)], d[k])}

\* Every directory from root down to d can be opened.
OpenableFrom(root, d) ==
    \A k \in Len(root)..Len(d) : SubSeq(d, 1, k) \notin Unopenable

FilesBeneath(root) ==
    {Append(d, f) : <<d, f>> \in {df \in DirectoriesBeneath(root) \X EntryNames :
                                     df[2] \in FileNamesIn(df[1])}}

ListableFilesBeneath(root) ==
    {file \in FilesBeneath(root) : OpenableFrom(root, Front(file))}

TimesProcessed(file) == Cardinality({i \in 1..Len(Processed) : Processed[i] = file})

WalkPassesEveryFileOnce ==
    pc = "done" =>
        /\ \A file \in FilesBeneath(Parts) : TimesProcessed(file) = 1
        /\ \A i \in 1..Len(Processed) : Processed[i] \in FilesBeneath(Parts)

\* C2, amended: every file beneath the starting directory that lies in a
\* directory which can be opened, as can every directory from the starting
\* one down to it, has been given to the callback exactly once, and nothing
\* else has.
WalkPassesEveryListableFileOnce ==
    pc = "done" =>
        /\ \A file \in ListableFilesBeneath(Parts) : TimesProcessed(file) = 1
        /\ \A i \in 1..Len(Processed) : Processed[i] \in ListableFilesBeneath(Parts)

\* A walk that has given the callback the one file it could list, beside a
\* file out of reach in a subdirectory that cannot be opened.
WitnessListableFiles ==
    /\ pc = "done"
    /\ Parts \notin Unopenable
    /\ Len(Processed) = 1
    /\ Processed[1] \in ListableFilesBeneath(Parts)
    /\ FilesBeneath(Parts) # ListableFilesBeneath(Parts)

\* C3: a walk that has begun reaches the end of Walk, where Transitions is
\* empty and Marker is the directory Walk was called on, which Walk never
\* changes.
WalkEndsAtRoot ==
    /\ [](pc \in {"root files", "root queue", "loop", "queue", "files"} => <>(pc = "done"))
    /\ [](pc = "done" => (Transitions = <<>> /\ Marker = Parts))
    /\ [][pc # "setup" => Parts' = Parts]_vars

\* The end of a walk that began below "/" and went into a subdirectory.
WitnessWalkEndsAtRoot ==
    /\ pc = "done"
    /\ Parts # <<>>
    /\ Marker = Parts
    /\ \E i \in 1..Len(Processed) : Len(Processed[i]) = Len(Parts) + 2

-----------------------------------------------------------------------------
(* The order of the steps of Walk *)

\* The positions of Steps where Marker.Enter() ran.
EnterSteps == {i \in 1..Len(Steps) : Steps[i].op = "Enter"}

IsEnterOfChild(step, d) == step.op = "Enter" /\ Front(step.at) = d

\* The names of the subdirectories of d entered so far, in the order of
\* their entering.
ChildrenEntered(d) ==
    LET IsChild(step) == IsEnterOfChild(step, d)
        Entered == SelectSeq(Steps, IsChild)
    IN  [i \in 1..Len(Entered) |-> Entered[i].at[Len(Entered[i].at)]]

\* The walk has had d as its Marker.
Visited(d) == d = Parts \/ \E i \in EnterSteps : Steps[i].at = d

\* C11: the subdirectories of a directory are entered in the order in which
\* ListDirectories returned them, each of them once and, when Walk returns,
\* all of them; and when a subdirectory is entered, every step of the walk at
\* or beneath a sibling entered before it has been taken and that sibling has
\* been left by Exit.
SiblingsEnteredInListingOrder ==
    pc \notin {"setup"} =>
        /\ \A d \in Directories :
              /\ IsPrefixOf(ChildrenEntered(d), ListDirectories(d))
              /\ (pc = "done" /\ Visited(d)) => ChildrenEntered(d) = ListDirectories(d)
              /\ ChildrenEntered(d) # <<>> => Visited(d)
        /\ \A i \in EnterSteps, j \in EnterSteps :
              (i < j /\ Front(Steps[i].at) = Front(Steps[j].at)) =>
                  /\ \E k \in (i + 1)..(j - 1) :
                        Steps[k] = [op |-> "Exit", at |-> Steps[i].at]
                  /\ \A m \in 1..Len(Steps) :
                        IsPrefixOf(Steps[i].at, Steps[m].at) => m < j

\* A finished walk of a directory with two subdirectories, the first listed
\* of which has a subdirectory of its own.
WitnessSiblingsInOrder ==
    /\ pc = "done"
    /\ Len(ListDirectories(Parts)) = 2
    /\ ListDirectories(Append(Parts, ListDirectories(Parts)[1])) # <<>>
    /\ Len(ChildrenEntered(Parts)) = 2

\* The walk has begun and has not returned.
InWalk == pc \in {"root files", "root queue", "loop", "queue", "files"}

\* The directories the walk has had as its Marker and could not open.
VisitedUnopenable == {d \in Unopenable : pc # "setup" /\ Visited(d)}

\* Nothing of d or beneath it has been given to the callback, and nothing
\* beneath d has been entered.
TreatedAsEmpty(d) ==
    /\ ListFiles(d) = <<>>
    /\ ListDirectories(d) = <<>>
    /\ \A i \in 1..Len(Processed) : ~IsPrefixOf(d, Processed[i])
    /\ \A i \in 1..Len(Steps) : IsPrefixOf(d, Steps[i].at) => Steps[i].at = d

\* Every directory listed beside d has been the Marker, and each file
\* listed in it has been given to the callback once.
SiblingsVisited(d) ==
    LET Siblings == ListDirectories(Front(d))
    IN  \A i \in 1..Len(Siblings) :
            LET sibling == Append(Front(d), Siblings[i])
                Files == ListFiles(sibling)
            IN  /\ Visited(sibling)
                /\ \A k \in 1..Len(Files) : TimesProcessed(Append(sibling, Files[k])) = 1

\* C12: a directory met by the walk that opendir() fails on is listed as
\* empty and Walk does not fail: nothing of it or beneath it is given to the
\* callback or entered, the walk goes on to its end, where every directory
\* listed beside it has been visited with its files and Marker is the
\* directory Walk was called on.
WalkSurvivesUnopenableDirectory ==
    /\ [](pc # "aborted")
    /\ [](\A d \in VisitedUnopenable : TreatedAsEmpty(d))
    /\ []((InWalk /\ VisitedUnopenable # {}) => <>(pc = "done"))
    /\ [](pc = "done" =>
            /\ Marker = Parts
            /\ \A d \in VisitedUnopenable : d # Parts => SiblingsVisited(d))

\* The end of a walk that met a subdirectory it could not open and, listed
\* after it, a subdirectory whose file it gave to the callback.
WitnessUnopenableSibling ==
    /\ pc = "done"
    /\ Len(ListDirectories(Parts)) = 2
    /\ Append(Parts, ListDirectories(Parts)[1]) \in VisitedUnopenable
    /\ Len(Processed) = 1
    /\ Front(Processed[1]) = Append(Parts, ListDirectories(Parts)[2])

\* The number of empty transitions in the list.
AscendCount(transitions) ==
    Cardinality({i \in 1..Len(transitions) : transitions[i] = <<>>})

\* C13: whenever the loop of Walk takes the front transition, a name is
\* taken with Marker at the directory whose listing gave the name, where the
\* name is a subdirectory, and an empty transition is taken with Marker
\* below the directory Walk was called on, at the directory entered when
\* that empty transition was pushed; Exit is never called on a root Marker,
\* and at every step of the walk Transitions holds as many empty transitions
\* as Marker has segments below the directory Walk was called on.
WalkerStepInvariant ==
    /\ pc # "aborted"
    /\ Len(Origins) = Len(Transitions)
    /\ pc # "setup" =>
          /\ IsPrefixOf(Parts, Marker)
          /\ AscendCount(Transitions) = Len(Marker) - Len(Parts)
    /\ (pc = "loop" /\ Transitions # <<>>) =>
          /\ Marker = Origins[1]
          /\ IF Head(Transitions) # <<>>
             THEN /\ \E i \in 1..Len(ListDirectories(Marker)) :
                        ListDirectories(Marker)[i] = Head(Transitions)
                  /\ DirectoryExists(Append(Marker, Head(Transitions)))
             ELSE /\ Len(Marker) > Len(Parts)
                  /\ ~IsRoot(Marker, windows)
                  /\ \E i \in EnterSteps : Steps[i].at = Marker

\* The loop about to take the empty transition of a directory two levels
\* below the walk root, with a name still queued behind it.
WitnessWalkerStep ==
    /\ pc = "loop"
    /\ Transitions # <<>>
    /\ Head(Transitions) = <<>>
    /\ Len(Marker) = Len(Parts) + 2
    /\ \E i \in 1..Len(Transitions) : Transitions[i] # <<>>

\* C14: in every directory the walk visits, the one Walk was called on or
\* one it entered, the files are listed and given to the callback before the
\* subdirectories are listed and queued: a call of QueueNewTransitions comes
\* after the call of ProcessFiles with the same Marker, and the step that
\* follows Enter and its push of the empty transition is ProcessFiles.
SubdirectoriesListedAfterFiles ==
    /\ \A i \in 1..Len(Steps) :
          Steps[i].op = "QueueNewTransitions" =>
              \E j \in 1..(i - 1) : Steps[j] = [op |-> "ProcessFiles", at |-> Steps[i].at]
    /\ \A i \in EnterSteps :
          i < Len(Steps) => Steps[i + 1] = [op |-> "ProcessFiles", at |-> Steps[i].at]

====
